---- MODULE Spec2Model ----
(***************************************************************************)
(* Friendship state machine, activity feed and venue search of the         *)
(* check-in social app (server/src/handlers over the tables of             *)
(* server/src/db/schema.ts).                                               *)
(*                                                                         *)
(* Specifications over the same variables:                                 *)
(*   Spec        every handler call runs to completion before the next one *)
(*               starts (one action per handler);                          *)
(*   SpecConc    handler calls of several requests interleave at their     *)
(*               awaits: each database statement is one atomic step;       *)
(*   SpecRead    the read operations (getFriendshipRequests,               *)
(*               getUserFriends, getActivityFeed, searchVenues) called on  *)
(*               the stores the handlers can leave behind;                 *)
(*   SpecSearch  searchVenues called with every input on venue stores.     *)
(*   SpecCheckin createCheckin called with every user and venue id.        *)
(***************************************************************************)
EXTENDS Integers, FiniteSets, Sequences, Bags, TLC

\* ---------------------------------------------------------------- bounds
NumUsers == 3      \* rows of the users table (serial ids 1..NumUsers)
MaxId    == 2      \* friendships serial ids handed out in one behaviour
MaxTime  == 1      \* clock readings 0..MaxTime
NumProcs == 2      \* requests in flight at once (SpecConc)
RaceUsers == 2     \* users 1..RaceUsers are the ones interleaved requests name
MaxCheckins == 2   \* check-ins of a store drawn with every user and time
ManyCheckins == 21 \* check-ins of the longest store drawn, one per instant
MaxLimit == 3      \* limits 1..MaxLimit a caller of getActivityFeed gives
MaxVenues == 2     \* rows of the venues table
MaxLat == 11       \* venue positions 0..MaxLat, in km along one meridian
MaxQueryLat == 1   \* query positions 0..MaxQueryLat, same unit
MaxRadius == 2     \* radii 1..MaxRadius a caller of searchVenues gives
MaxLen == 2        \* characters of a venue name, description or text query

\* ------------------------------------------------------- program constants
\* friendshipStatusEnum
friendshipStatusEnum == {"pending", "accepted", "rejected", "blocked"}

\* a schema that also lets 'pending' through
updateFriendshipInputSchema_withPending == friendshipStatusEnum

\* updateFriendshipInputSchema.status: z.enum(['accepted','rejected','blocked'])
updateFriendshipInputSchema == {"accepted", "rejected", "blocked"}

\* messages of the errors the handlers throw
ErrSelfRequest       == "Cannot send friend request to yourself"
ErrUserNotFound      == "One or both users do not exist"
ErrDuplicateEdge     == "Friendship already exists between these users"
ErrNotFound          == "Friendship not found"
ErrBlockedImmutable  == "Cannot update blocked friendship"
NoError              == "none"
\* `User with id ${input.user_id} does not exist` and its venue counterpart
ErrCheckinUser       == "User with id does not exist"
ErrCheckinVenue      == "Venue with id does not exist"

\* getActivityFeed = async (userId, limit = 20)
DefaultLimit == 20

\* const radius = input.radius || 10
DefaultRadius == 10

\* what PostgreSQL raises when the argument of acos() is outside [-1, 1]
ErrAcosRange == "input is out of range"

\* characters of the texts: two letters, one of them in both cases, and the
\* one-character wildcard of LIKE
Chars == {"a", "A", "b", "_"}
Categories == {"cafe", "bar"}

\* An optional input or a nullable column: <<>> when omitted (null), <<x>>
\* when it is x.
Optional(S) == {<<>>} \cup {<<x>> : x \in S}

\* ids a caller can send: 0 and NumUsers+1 never name a user
UserIds == 0 .. (NumUsers + 1)
\* friendship ids a caller can send: MaxId+1 never names a record
FriendshipIds == 1 .. (MaxId + 1)
Procs == 1 .. NumProcs
\* venue ids a caller can send: 0 and MaxVenues+1 never name a venue
VenueIds == 0 .. (MaxVenues + 1)
\* user ids the interleaved requests send (0 names no user)
RaceUserIds == 0 .. RaceUsers

VARIABLES
    users,        \* usersTable: set of user ids
    friendships,  \* friendshipsTable: set of rows
    nextId,       \* the serial sequence behind friendshipsTable.id
    now,          \* the clock read by defaultNow() and new Date()
    calls,        \* SpecConc: per request, where its handler is suspended
    ret,          \* outcome of the handler call that completed last
    venues,       \* venuesTable: set of rows
    checkins,     \* checkinsTable: set of rows
    out           \* what the read operation called last returned

vars == <<users, friendships, nextId, now, calls, ret, venues, checkins, out>>

\* ------------------------------------------------------------ the outcome
\* What a completed call gave its caller: the error it threw (NoError when it
\* returned), for createFriendship and updateFriendship the rows of the
\* statement's returning() (the handler returns rows[0]; no row and NoError
\* is a returned undefined), and for removeFriendship the boolean.
Outcome(op, err, rows, removed) ==
    [op |-> op, error |-> err, rows |-> rows, removed |-> removed]

NoCall == Outcome("none", NoError, {}, FALSE)

\* What a read operation gave its caller: the array it resolved to, or the
\* error of the statement it awaited.
Returned(op, err, result) == [op |-> op, error |-> err, result |-> result]

NoRead == Returned("none", NoError, <<>>)

IdleCall == [pc |-> "idle", requester_id |-> 0, addressee_id |-> 0,
             id |-> 0, status |-> "none"]

\* --------------------------------------------------------- the statements
\* select id from users where id = a or id = b
SelectUsers(a, b) == {u \in users : u = a \/ u = b}

\* a duplicate query that looks in the direction of the request only
SelectExistingFriendship_oneDirection(a, b) ==
    {f \in friendships : f.requester_id = a /\ f.addressee_id = b}

\* select * from friendships where (requester = a and addressee = b)
\*                              or (requester = b and addressee = a)
SelectExistingFriendship(a, b) ==
    {f \in friendships :
        \/ (f.requester_id = a /\ f.addressee_id = b)
        \/ (f.requester_id = b /\ f.addressee_id = a)}

\* an insert that stores the request already accepted
NewFriendship_accepted(a, b) ==
    [id |-> nextId, requester_id |-> a, addressee_id |-> b,
     status |-> "accepted", created_at |-> now, updated_at |-> now]

\* the row insert ... values {requester_id, addressee_id, status: 'pending'}
\* creates: id from the serial, both timestamps defaultNow()
NewFriendship(a, b) ==
    [id |-> nextId, requester_id |-> a, addressee_id |-> b,
     status |-> "pending", created_at |-> now, updated_at |-> now]

\* select * from friendships where id = id
SelectFriendshipById(id) == {f \in friendships : f.id = id}

\* an update that also writes created_at
UpdatedRow_newCreatedAt(f, st) ==
    [f EXCEPT !.status = st, !.updated_at = now, !.created_at = now]

\* an update that sets updated_at only
UpdatedRow_timestampOnly(f, st) == [f EXCEPT !.updated_at = now]

\* update friendships set status, updated_at = new Date() where id = id
UpdatedRow(f, st) == [f EXCEPT !.status = st, !.updated_at = now]

\* a validation without the blocked test
UpdateCheck_noBlockedTest(existing) ==
    IF existing = {} THEN ErrNotFound ELSE NoError

\* a validation without the not-found test
UpdateCheck_noNotFoundTest(existing) ==
    IF \E f \in existing : f.status = "blocked" THEN ErrBlockedImmutable
    ELSE NoError

\* the validation of updateFriendship on the rows it read
UpdateCheck(existing) ==
    IF existing = {} THEN ErrNotFound
    ELSE IF \E f \in existing : f.status = "blocked" THEN ErrBlockedImmutable
    ELSE NoError

\* a validation that only requires the users query to find somebody
UsersCheck_someUserOnly(a, b) ==
    IF Cardinality(SelectUsers(a, b)) = 0 THEN ErrUserNotFound ELSE NoError

\* a validation that counts the users before it compares the two ids
UsersCheck_countFirst(a, b) ==
    IF Cardinality(SelectUsers(a, b)) # 2 THEN ErrUserNotFound
    ELSE IF a = b THEN ErrSelfRequest
    ELSE NoError

\* a validation that is content with one of the two users
UsersCheck_anyUser(a, b) ==
    IF a = b THEN ErrSelfRequest
    ELSE IF Cardinality(SelectUsers(a, b)) = 0 THEN ErrUserNotFound
    ELSE NoError

\* the validation of createFriendship up to the users query
UsersCheck(a, b) ==
    IF a = b THEN ErrSelfRequest
    ELSE IF Cardinality(SelectUsers(a, b)) # 2 THEN ErrUserNotFound
    ELSE NoError

\* a validation that lets a request through once the record found is no
\* longer pending
DuplicateCheck_pendingOnly(existing) ==
    IF \E f \in existing : f.status = "pending" THEN ErrDuplicateEdge ELSE NoError

\* the validation of createFriendship on the rows of its duplicate query
DuplicateCheck(existing) ==
    IF existing # {} THEN ErrDuplicateEdge ELSE NoError

\* ------------------------------------------------------------------- Init
Init ==
    /\ users = 1 .. NumUsers
    /\ friendships = {}
    /\ nextId = 1
    /\ now = 0
    /\ calls = [p \in Procs |-> IdleCall]
    /\ ret = NoCall
    /\ venues = {}
    /\ checkins = {}
    /\ out = NoRead

\* time passes
Tick ==
    /\ now < MaxTime
    /\ now' = now + 1
    /\ UNCHANGED <<users, friendships, nextId, calls, ret, venues, checkins, out>>

\* ------------------------------------------- handlers, run to completion
\* What one call does to the store and gives its caller, as a function of the
\* store it starts from.
Result(err, rows, removed, table, serial) ==
    [error |-> err, rows |-> rows, removed |-> removed,
     friendships |-> table, nextId |-> serial]

createFriendship_result(a, b) ==
    IF UsersCheck(a, b) # NoError THEN
        Result(UsersCheck(a, b), {}, FALSE, friendships, nextId)
    ELSE IF DuplicateCheck(SelectExistingFriendship(a, b)) # NoError THEN
        Result(DuplicateCheck(SelectExistingFriendship(a, b)), {}, FALSE,
               friendships, nextId)
    ELSE
        Result(NoError, {NewFriendship(a, b)}, FALSE,
               friendships \cup {NewFriendship(a, b)}, nextId + 1)

updateFriendship_result(id, st) ==
    IF UpdateCheck(SelectFriendshipById(id)) # NoError THEN
        Result(UpdateCheck(SelectFriendshipById(id)), {}, FALSE,
               friendships, nextId)
    ELSE
        Result(NoError, {UpdatedRow(f, st) : f \in SelectFriendshipById(id)}, FALSE,
               {IF f.id = id THEN UpdatedRow(f, st) ELSE f : f \in friendships},
               nextId)

\* removeFriendship with a delete statement that also requires the status
\* pending: a record that has left pending is kept and false is returned.
removeFriendship_result_pendingOnly(id) ==
    LET gone == {f \in SelectFriendshipById(id) : f.status = "pending"}
    IN Result(NoError, {}, gone # {}, friendships \ gone, nextId)

\* removeFriendship that marks the record rejected instead of deleting it
removeFriendship_result_markOnly(id) ==
    Result(NoError, {}, SelectFriendshipById(id) # {},
           {IF f.id = id THEN [f EXCEPT !.status = "rejected"] ELSE f :
              f \in friendships},
           nextId)

\* delete ... where id = friendshipId returning: true iff a row was deleted
removeFriendship_result(id) ==
    Result(NoError, {}, SelectFriendshipById(id) # {},
           friendships \ SelectFriendshipById(id), nextId)

\* the call op with result r takes place
Call(op, r) ==
    /\ r.nextId <= MaxId + 1
    /\ friendships' = r.friendships
    /\ nextId' = r.nextId
    /\ ret' = Outcome(op, r.error, r.rows, r.removed)
    /\ UNCHANGED <<users, now, calls, venues, checkins, out>>

createFriendship(a, b) == Call("createFriendship", createFriendship_result(a, b))

updateFriendship(id, st) == Call("updateFriendship", updateFriendship_result(id, st))

removeFriendship(id) == Call("removeFriendship", removeFriendship_result(id))

Next ==
    \/ Tick
    \/ \E a \in UserIds, b \in UserIds : createFriendship(a, b)
    \/ \E id \in FriendshipIds, st \in updateFriendshipInputSchema :
          updateFriendship(id, st)
    \/ \E id \in FriendshipIds : removeFriendship(id)

Spec == Init /\ [][Next]_vars

\* ----------------------------------- handlers, interleaved at their awaits
\* A request p runs one handler call; between two awaits the handler runs
\* without interruption, and each awaited statement executes atomically in
\* the database, so one step is "a statement and the code up to the next".

Suspend(p, pc, a, b, id, st) ==
    calls' = [calls EXCEPT ![p] = [pc |-> pc, requester_id |-> a,
                                   addressee_id |-> b, id |-> id, status |-> st]]

Complete(p) == calls' = [calls EXCEPT ![p] = IdleCall]

\* createFriendship up to its second await: the self-request test, the users
\* query and the test of its row count
createFriendship_selectUsers(p, a, b) ==
    /\ calls[p].pc = "idle"
    /\ IF UsersCheck(a, b) # NoError THEN
          /\ ret' = Outcome("createFriendship", UsersCheck(a, b), {}, FALSE)
          /\ UNCHANGED calls
       ELSE
          /\ Suspend(p, "createFriendship_selectExisting", a, b, 0, "none")
          /\ UNCHANGED ret
    /\ UNCHANGED <<users, friendships, nextId, now, venues, checkins, out>>

\* the duplicate query and the test of its rows
createFriendship_selectExisting(p) ==
    /\ calls[p].pc = "createFriendship_selectExisting"
    /\ LET a == calls[p].requester_id
           b == calls[p].addressee_id
       IN IF DuplicateCheck(SelectExistingFriendship(a, b)) # NoError THEN
             /\ ret' = Outcome("createFriendship", ErrDuplicateEdge, {}, FALSE)
             /\ Complete(p)
          ELSE
             /\ Suspend(p, "createFriendship_insert", a, b, 0, "none")
             /\ UNCHANGED ret
    /\ UNCHANGED <<users, friendships, nextId, now, venues, checkins, out>>

\* the insert and the return of its row
createFriendship_insert(p) ==
    /\ calls[p].pc = "createFriendship_insert"
    /\ nextId <= MaxId
    /\ LET a == calls[p].requester_id
           b == calls[p].addressee_id
       IN /\ friendships' = friendships \cup {NewFriendship(a, b)}
          /\ nextId' = nextId + 1
          /\ ret' = Outcome("createFriendship", NoError, {NewFriendship(a, b)}, FALSE)
    /\ Complete(p)
    /\ UNCHANGED <<users, now, venues, checkins, out>>

\* updateFriendship up to its second await: the query by id, the not-found
\* test and the blocked test
updateFriendship_select(p, id, st) ==
    /\ calls[p].pc = "idle"
    /\ IF UpdateCheck(SelectFriendshipById(id)) # NoError THEN
          /\ ret' = Outcome("updateFriendship", UpdateCheck(SelectFriendshipById(id)), {}, FALSE)
          /\ UNCHANGED calls
       ELSE
          /\ Suspend(p, "updateFriendship_update", 0, 0, id, st)
          /\ UNCHANGED ret
    /\ UNCHANGED <<users, friendships, nextId, now, venues, checkins, out>>

\* the update statement and the return of its row
updateFriendship_update(p) ==
    /\ calls[p].pc = "updateFriendship_update"
    /\ LET id == calls[p].id
           st == calls[p].status
       IN /\ friendships' = {IF f.id = id THEN UpdatedRow(f, st) ELSE f :
                               f \in friendships}
          /\ ret' = Outcome("updateFriendship", NoError,
                            {UpdatedRow(f, st) : f \in SelectFriendshipById(id)},
                            FALSE)
    /\ Complete(p)
    /\ UNCHANGED <<users, nextId, now, venues, checkins, out>>

NextConc ==
    \/ Tick
    \/ \E p \in Procs, a \in RaceUserIds, b \in RaceUserIds :
          createFriendship_selectUsers(p, a, b)
    \/ \E p \in Procs : createFriendship_selectExisting(p)
    \/ \E p \in Procs : createFriendship_insert(p)
    \/ \E p \in Procs, id \in FriendshipIds, st \in updateFriendshipInputSchema :
          updateFriendship_select(p, id, st)
    \/ \E p \in Procs : updateFriendship_update(p)
    \/ \E id \in FriendshipIds : removeFriendship(id)

SpecConc == Init /\ [][NextConc]_vars

\* ------------------------------------------------- queries on friendships
\* from friendshipsTable inner join usersTable, before the on condition
FriendshipsJoinUsers == [f : friendships, u : users]

\* getFriendshipRequests that takes the pending records of both sides
getFriendshipRequests_bothSides(userId) ==
    {j.f : j \in {j \in FriendshipsJoinUsers :
                     /\ j.f.requester_id = j.u
                     /\ userId \in {j.f.requester_id, j.f.addressee_id}
                     /\ j.f.status = "pending"}}

\* the friendship columns of the rows joined to their requester, where the
\* addressee is userId and the status pending (one row per record: the join
\* is on the primary key of usersTable)
getFriendshipRequests(userId) ==
    {j.f : j \in {j \in FriendshipsJoinUsers :
                     /\ j.f.requester_id = j.u
                     /\ j.f.addressee_id = userId
                     /\ j.f.status = "pending"}}

\* getUserFriends that joins on the requester side only
getUserFriends_rows_requesterSide(userId) ==
    {j \in FriendshipsJoinUsers :
        /\ j.f.requester_id = userId /\ j.u = j.f.addressee_id
        /\ j.f.status = "accepted"}

\* getUserFriends without the where clause on the status
getUserFriends_rows_anyStatus(userId) ==
    {j \in FriendshipsJoinUsers :
        \/ j.f.requester_id = userId /\ j.u = j.f.addressee_id
        \/ j.f.addressee_id = userId /\ j.u = j.f.requester_id}

\* the joined rows of getUserFriends: a record of userId with the user at
\* its other end, where the status is accepted
getUserFriends_rows(userId) ==
    {j \in FriendshipsJoinUsers :
        /\ \/ j.f.requester_id = userId /\ j.u = j.f.addressee_id
           \/ j.f.addressee_id = userId /\ j.u = j.f.requester_id
        /\ j.f.status = "accepted"}

\* results.map(...): one User per joined row, as a bag of user ids
getUserFriends(userId) ==
    [x \in {j.u : j \in getUserFriends_rows(userId)} |->
        Cardinality({j \in getUserFriends_rows(userId) : j.u = x})]

\* ------------------------------------------------------ the activity feed
\* from checkinsTable inner join usersTable, venuesTable and friendshipsTable,
\* before the on conditions
CheckinsJoin == [c : checkins, u : users, v : venues, f : friendships]

\* getActivityFeed without the where clause on the status
getActivityFeed_rows_anyStatus(userId) ==
    {j \in CheckinsJoin :
        /\ j.c.user_id = j.u
        /\ j.c.venue_id = j.v.id
        /\ \/ j.f.requester_id = j.c.user_id /\ j.f.addressee_id = userId
           \/ j.f.requester_id = userId /\ j.f.addressee_id = j.c.user_id}

\* the joined rows of getActivityFeed: a check-in with its user, its venue
\* and a record that ties its user to userId, where that record is accepted
getActivityFeed_rows(userId) ==
    {j \in CheckinsJoin :
        /\ j.c.user_id = j.u
        /\ j.c.venue_id = j.v.id
        /\ \/ j.f.requester_id = j.c.user_id /\ j.f.addressee_id = userId
           \/ j.f.requester_id = userId /\ j.f.addressee_id = j.c.user_id
        /\ j.f.status = "accepted"}

\* order by checkins.created_at desc: every order of the rows the statement
\* allows (rows of one created_at come in any order)
RECURSIVE OrderByCreatedAtDesc(_)
OrderByCreatedAtDesc(rows) ==
    IF rows = {} THEN {<<>>}
    ELSE UNION {{<<j>> \o s : s \in OrderByCreatedAtDesc(rows \ {j})} :
                  j \in {j \in rows :
                           \A k \in rows : k.c.created_at <= j.c.created_at}}

\* .limit(n)
Limit(s, n) == SubSeq(s, 1, IF n < Len(s) THEN n ELSE Len(s))

\* results.map(...): the feed item of a joined row
FeedItem(j) ==
    [id |-> j.c.id, user_id |-> j.c.user_id, venue_id |-> j.c.venue_id,
     venue_name |-> j.v.name, created_at |-> j.c.created_at]

\* the arrays getActivityFeed(userId, limit) can resolve to; limit is <<>>
\* when the caller gives none
getActivityFeed(userId, limit) ==
    {[i \in 1 .. Len(t) |-> FeedItem(t[i])] :
        t \in {Limit(s, IF limit = <<>> THEN DefaultLimit ELSE limit[1]) :
                 s \in OrderByCreatedAtDesc(getActivityFeed_rows(userId))}}

\* ---------------------------------------------------------- venue search
\* The venues and the query point lie on one meridian, and a latitude is
\* given as its arc length from the equator in km (6371 * radians(latitude)).
\* There 6371 * acos(cos(p) * cos(q) * cos(0) + sin(p) * sin(q)) is
\* 6371 * acos(cos(p - q)), the length of the arc between the two points.
Distance(latitude, venue) ==
    IF latitude >= venue.latitude THEN latitude - venue.latitude
    ELSE venue.latitude - latitude

\* For a venue at the query point the argument of acos is cos(p)^2 + sin(p)^2,
\* which floating-point rounding puts at 1 or just above 1 depending on p:
\* acos() can then raise ErrAcosRange, which fails the whole statement.
AcosCanFail(latitude) == \E v \in venues : v.latitude = latitude

\* input.radius || 10: the default also stands in for a radius of 0
Radius(input) ==
    IF input.radius # <<>> /\ input.radius[1] # 0 THEN input.radius[1]
    ELSE DefaultRadius

\* if (input.category): a category that is given and not the empty string
HasCategory(input) == input.category # <<>> /\ input.category[1] # ""

\* if (input.query): a text that is given and not the empty string
HasQuery(input) == input.query # <<>> /\ input.query[1] # <<>>

\* ILIKE folds the case of both sides
Lower(c) == IF c = "A" THEN "a" ELSE c

\* text LIKE pat, case folded: % stands for any run of characters, _ for
\* any one character, every other character for itself
RECURSIVE ILike(_, _)
ILike(text, pat) ==
    IF pat = <<>> THEN text = <<>>
    ELSE IF Head(pat) = "%" THEN
        \/ ILike(text, Tail(pat))
        \/ text # <<>> /\ ILike(Tail(text), pat)
    ELSE IF Head(pat) = "_" THEN
        text # <<>> /\ ILike(Tail(text), Tail(pat))
    ELSE
        /\ text # <<>>
        /\ Lower(Head(text)) = Lower(Head(pat))
        /\ ILike(Tail(text), Tail(pat))

\* '%' + input.query + '%'
Pattern(input) == <<"%">> \o input.query[1] \o <<"%">>

\* the where clause: the conditions pushed, joined by and(); a null
\* description makes its ILIKE null, which counts as not matching
searchVenues_where(input, v) ==
    /\ Distance(input.latitude, v) <= Radius(input)
    /\ HasCategory(input) => v.category = input.category[1]
    /\ HasQuery(input) =>
          \/ ILike(v.name, Pattern(input))
          \/ v.description # <<>> /\ ILike(v.description[1], Pattern(input))

\* a statement without the order by clause: the rows in any order
OrderByDistance_unordered(rows, latitude) ==
    {s \in [1 .. Cardinality(rows) -> rows] :
        \A i \in 1 .. Cardinality(rows), k \in 1 .. Cardinality(rows) :
            i # k => s[i] # s[k]}

\* order by distance: every order of the rows the statement allows (rows at
\* one distance come in any order)
RECURSIVE OrderByDistance(_, _)
OrderByDistance(rows, latitude) ==
    IF rows = {} THEN {<<>>}
    ELSE UNION {{<<v>> \o s : s \in OrderByDistance(rows \ {v}, latitude)} :
                  v \in {v \in rows :
                           \A w \in rows :
                              Distance(latitude, v) <= Distance(latitude, w)}}

\* what searchVenues(input) can give its caller: the venues that pass the
\* where clause, in one of the orders allowed, or the error of acos()
searchVenues(input) ==
    {Returned("searchVenues", NoError, s) :
        s \in OrderByDistance({v \in venues : searchVenues_where(input, v)},
                              input.latitude)}
    \cup (IF AcosCanFail(input.latitude)
          THEN {Returned("searchVenues", ErrAcosRange, <<>>)} ELSE {})

\* ----------------------------------------------------- the read operations
\* a read that also stamps the friendship records it has gone through
Read_stamping(o) ==
    /\ out' = o
    /\ friendships' = {[f EXCEPT !.updated_at = now] : f \in friendships}
    /\ UNCHANGED <<users, nextId, now, calls, ret, venues, checkins>>

\* A read operation resolves to o: it has awaited select statements only.
Read(o) ==
    /\ out' = o
    /\ UNCHANGED <<users, friendships, nextId, now, calls, ret, venues, checkins>>

getFriendshipRequests_returns(userId) ==
    Read(Returned("getFriendshipRequests", NoError, getFriendshipRequests(userId)))

getUserFriends_returns(userId) ==
    Read(Returned("getUserFriends", NoError, getUserFriends(userId)))

getActivityFeed_returns(userId, limit) ==
    \E s \in getActivityFeed(userId, limit) :
        Read(Returned("getActivityFeed", NoError, s))

searchVenues_returns(input) == \E o \in searchVenues(input) : Read(o)

\* ------------------------------------------------- the stores that are read
\* a friendships row written at time 0
FriendshipRow(id, a, b, st) ==
    [id |-> id, requester_id |-> a, addressee_id |-> b, status |-> st,
     created_at |-> 0, updated_at |-> 0]

\* The friendships tables that calls made at time 0 leave behind: serial ids,
\* two distinct users per row, any status. Two rows can tie the same pair of
\* users: interleaved createFriendship calls insert both (SpecConc).
FriendshipStores ==
    UNION {{{r[i] : i \in 1 .. n} :
              r \in {r \in [1 .. n ->
                              {FriendshipRow(id, a, b, st) :
                                 id \in 1 .. MaxId, a \in 1 .. NumUsers,
                                 b \in 1 .. NumUsers, st \in friendshipStatusEnum}] :
                       \A i \in 1 .. n :
                          r[i].id = i /\ r[i].requester_id # r[i].addressee_id}} :
           n \in 0 .. MaxId}

\* The check-ins tables of up to MaxCheckins rows: serial ids, any user, venue
\* 1, created_at never decreasing with the id.
CheckinStores ==
    UNION {{{c[i] : i \in 1 .. n} :
              c \in {c \in [1 .. n -> [id : 1 .. MaxCheckins, user_id : 1 .. NumUsers,
                                       venue_id : {1}, created_at : 0 .. MaxTime]] :
                       /\ \A i \in 1 .. n : c[i].id = i
                       /\ \A i \in 1 .. n, k \in 1 .. n :
                             i < k => c[i].created_at <= c[k].created_at}} :
           n \in 0 .. MaxCheckins}

\* The long check-ins tables: user 2 checked in once per instant.
LongCheckinStores ==
    {{[id |-> i, user_id |-> 2, venue_id |-> 1, created_at |-> i] : i \in 1 .. n} :
        n \in (ManyCheckins - 1) .. ManyCheckins}

\* a venues row
Venue(id, latitude, category, name, description) ==
    [id |-> id, latitude |-> latitude, category |-> category, name |-> name,
     description |-> description]

\* texts of 1 to MaxLen characters
Texts == UNION {[1 .. n -> Chars] : n \in 1 .. MaxLen}

\* The venues tables of up to MaxVenues rows that differ in position and
\* category, and those of one row with any name and description.
VenueStores ==
    UNION {{{v[i] : i \in 1 .. n} :
              v \in {v \in [1 .. n -> {Venue(id, lat, cat, <<"a">>, <<>>) :
                                          id \in 1 .. MaxVenues, lat \in 0 .. MaxLat,
                                          cat \in Categories}] :
                       \A i \in 1 .. n : v[i].id = i}} :
           n \in 0 .. MaxVenues}
    \cup {{Venue(1, 0, "cafe", name, description)} :
            name \in Texts, description \in Optional(Texts)}

\* the inputs of searchVenues
SearchVenuesInputs ==
    [latitude : 0 .. MaxQueryLat, radius : Optional(1 .. MaxRadius),
     category : Optional(Categories \cup {""}),
     query : Optional(Texts \cup {<<>>})]

\* the store has just been set up: no call is in flight, none has completed
Quiet ==
    /\ users = 1 .. NumUsers
    /\ nextId = Cardinality(friendships) + 1
    /\ calls = [p \in Procs |-> IdleCall]
    /\ ret = NoCall
    /\ out = NoRead

\* ---------------------------------------------- reads of a store, SpecRead
InitRead ==
    /\ venues = {Venue(1, 0, "cafe", <<"a">>, <<>>)}
    /\ \/ friendships \in FriendshipStores /\ checkins \in CheckinStores /\ now = MaxTime
       \/ /\ friendships \in {{FriendshipRow(1, 1, 2, "accepted")},
                               {FriendshipRow(1, 2, 1, "accepted")}}
          /\ checkins \in LongCheckinStores
          /\ now = ManyCheckins
    /\ Quiet

NextRead ==
    \/ \E u \in UserIds : getFriendshipRequests_returns(u)
    \/ \E u \in UserIds : getUserFriends_returns(u)
    \/ \E u \in UserIds, limit \in Optional(1 .. MaxLimit) :
          getActivityFeed_returns(u, limit)
    \/ \E latitude \in {0, MaxLat} :
          searchVenues_returns([latitude |-> latitude, radius |-> <<>>,
                                category |-> <<>>, query |-> <<>>])

SpecRead == InitRead /\ [][NextRead]_vars

\* ------------------------------------- searches of a store, SpecSearch
InitSearch ==
    /\ venues \in VenueStores
    /\ friendships = {}
    /\ checkins = {}
    /\ now = 0
    /\ Quiet

NextSearch == \E input \in SearchVenuesInputs : searchVenues_returns(input)

SpecSearch == InitSearch /\ [][NextSearch]_vars

\* ------------------------------------------- check-ins, SpecCheckin
\* insert into checkins (user_id, venue_id) returning *: the serial id is the
\* count plus one because no handler deletes a check-in; created_at is
\* defaultNow(). The message column plays no part and is left out.
NewCheckin(user_id, venue_id) ==
    [id |-> Cardinality(checkins) + 1, user_id |-> user_id,
     venue_id |-> venue_id, created_at |-> now]

\* What one createCheckin call gives its caller and makes of the table.
CheckinResult(err, rows, table) == [error |-> err, rows |-> rows, checkins |-> table]

\* createCheckin without the select on venuesTable
createCheckin_result_noVenueCheck(user_id, venue_id) ==
    IF {u \in users : u = user_id} = {} THEN
        CheckinResult(ErrCheckinUser, {}, checkins)
    ELSE
        CheckinResult(NoError, {NewCheckin(user_id, venue_id)},
                      checkins \cup {NewCheckin(user_id, venue_id)})

\* select the user, throw if none; select the venue, throw if none; insert
createCheckin_result(user_id, venue_id) ==
    IF {u \in users : u = user_id} = {} THEN
        CheckinResult(ErrCheckinUser, {}, checkins)
    ELSE IF {v \in venues : v.id = venue_id} = {} THEN
        CheckinResult(ErrCheckinVenue, {}, checkins)
    ELSE
        CheckinResult(NoError, {NewCheckin(user_id, venue_id)},
                      checkins \cup {NewCheckin(user_id, venue_id)})

createCheckin(user_id, venue_id) ==
    /\ Cardinality(createCheckin_result(user_id, venue_id).checkins) <= MaxCheckins
    /\ checkins' = createCheckin_result(user_id, venue_id).checkins
    /\ ret' = Outcome("createCheckin", createCheckin_result(user_id, venue_id).error,
                      createCheckin_result(user_id, venue_id).rows, FALSE)
    /\ UNCHANGED <<users, friendships, nextId, now, calls, venues, out>>

\* the venues tables of 0 to MaxVenues rows, all of one place
InitCheckin ==
    /\ venues \in {{Venue(i, 0, "cafe", <<"a">>, <<>>) : i \in 1 .. n} :
                     n \in 0 .. MaxVenues}
    /\ friendships = {}
    /\ checkins = {}
    /\ now = 0
    /\ Quiet

NextCheckin ==
    \/ Tick
    \/ \E user_id \in UserIds, venue_id \in VenueIds : createCheckin(user_id, venue_id)

SpecCheckin == InitCheckin /\ [][NextCheckin]_vars

\* =================================================================== claims
\* f connects the unordered pair {a, b}
Connects(f, a, b) == {f.requester_id, f.addressee_id} = {a, b}

\* C1: under Spec (calls run to completion one after the other) the store
\* never holds two records for the same unordered pair of users, whatever
\* their direction or status.
C1_OneRecordPerPair ==
    \A f \in friendships, g \in friendships :
        Connects(g, f.requester_id, f.addressee_id) => f = g

\* C1 witness: a request was refused as a duplicate while the store holds
\* two records, one of them no longer pending.
C1_Witness ==
    /\ ret.op = "createFriendship" /\ ret.error = ErrDuplicateEdge
    /\ Cardinality(friendships) = 2
    /\ \E f \in friendships : f.status # "pending"

\* C2: under SpecConc, of the createFriendship calls racing for one pair at
\* most one inserts: no insert is executed while a record already connects
\* the pair (the call has to fail with DuplicateEdge instead).
C2_NoInsertOverExistingRecord ==
    [][\A p \in Procs :
          createFriendship_insert(p) =>
             ~ \E f \in friendships :
                  Connects(f, calls[p].requester_id, calls[p].addressee_id)]_vars

\* C3: in every state, a createFriendship(a, b) called while a record
\* connects {a, b}, in either direction and in any status, fails with
\* DuplicateEdge and leaves the store as it was.
C3_DuplicateEdge ==
    \A a \in UserIds, b \in UserIds :
        (\E f \in friendships : Connects(f, a, b))
           => /\ createFriendship_result(a, b).error = ErrDuplicateEdge
              /\ createFriendship_result(a, b).friendships = friendships

\* C3 witness: a request was refused as a duplicate while the only record of
\* the store is blocked.
C3_Witness ==
    /\ ret.op = "createFriendship" /\ ret.error = ErrDuplicateEdge
    /\ Cardinality(friendships) = 1
    /\ \A f \in friendships : f.status = "blocked"

\* C4: in every state, createFriendship(x, x) fails with SelfRequest for
\* every id x, user or not, and inserts nothing.
C4_SelfRequest ==
    \A x \in UserIds :
        /\ createFriendship_result(x, x).error = ErrSelfRequest
        /\ createFriendship_result(x, x).friendships = friendships

\* C4 witness: a request was refused as a self-request while the store holds
\* a record.
C4_Witness ==
    /\ ret.op = "createFriendship" /\ ret.error = ErrSelfRequest
    /\ friendships # {}

\* C5: in every state, createFriendship(a, b) with a # b fails with
\* UserNotFound when a, b or both are not users, and inserts nothing.
C5_UserNotFound ==
    \A a \in UserIds, b \in UserIds :
        (a # b /\ ~ ({a, b} \subseteq users))
           => /\ createFriendship_result(a, b).error = ErrUserNotFound
              /\ createFriendship_result(a, b).friendships = friendships

\* C5 witness: a request was refused for a missing user while the store
\* holds a record.
C5_Witness ==
    /\ ret.op = "createFriendship" /\ ret.error = ErrUserNotFound
    /\ friendships # {}

\* C6: in every state, createFriendship(a, b) between two distinct users that
\* no record connects inserts exactly one new record (a, b, pending), returns
\* it and leaves the other records unchanged.
C6_CreatesPending ==
    \A a \in UserIds, b \in UserIds :
        (/\ a # b
         /\ {a, b} \subseteq users
         /\ ~ \E f \in friendships : Connects(f, a, b))
           => LET r == createFriendship_result(a, b)
              IN /\ r.error = NoError
                 /\ \E row \in r.rows :
                       /\ r.rows = {row}
                       /\ row \notin friendships
                       /\ r.friendships = friendships \cup {row}
                       /\ row.requester_id = a
                       /\ row.addressee_id = b
                       /\ row.status = "pending"

\* C6 witness: the record just returned stands next to an older record that
\* has been accepted.
C6_Witness ==
    /\ ret.op = "createFriendship" /\ ret.error = NoError
    /\ ret.rows \subseteq friendships /\ ret.rows # {}
    /\ \E f \in friendships : f \notin ret.rows /\ f.status = "accepted"

\* C7: in every state, an updateFriendship call on a record whose status is
\* blocked fails with BlockedImmutable, for any new status, and leaves the
\* record (status and updated_at included) unchanged.
C7_BlockedImmutable ==
    \A id \in FriendshipIds, st \in updateFriendshipInputSchema :
        (\E f \in friendships : f.id = id /\ f.status = "blocked")
           => /\ updateFriendship_result(id, st).error = ErrBlockedImmutable
              /\ updateFriendship_result(id, st).friendships = friendships

\* C7 witness: an update was refused as blocked at a time later than the
\* updated_at of the blocked record, the only record of the store.
C7_Witness ==
    /\ ret.op = "updateFriendship" /\ ret.error = ErrBlockedImmutable
    /\ Cardinality(friendships) = 1
    /\ \A f \in friendships : f.status = "blocked" /\ f.updated_at < now

\* C8: under SpecConc, whatever the interleaving of the reads and writes of
\* updateFriendship calls, a record whose stored status is blocked is never
\* given another status.
C8_BlockedStaysBlocked ==
    [][\A f \in friendships, g \in friendships' :
          (f.id = g.id /\ f.status = "blocked") => g.status = "blocked"]_vars

\* C9: in every state, updateFriendship(id, st) with an id no record has
\* fails with NotFound, creates no record and changes none.
C9_NotFound ==
    \A id \in FriendshipIds, st \in updateFriendshipInputSchema :
        (~ \E f \in friendships : f.id = id)
           => /\ updateFriendship_result(id, st).error = ErrNotFound
              /\ updateFriendship_result(id, st).friendships = friendships

\* C9 witness: an update was refused as not found while the store holds a
\* record.
C9_Witness ==
    /\ ret.op = "updateFriendship" /\ ret.error = ErrNotFound
    /\ friendships # {}

\* C10: a record that has left pending is never pending again, and every
\* updateFriendship call that succeeds leaves its record not pending.
C10_NeverPendingAgain ==
    [][/\ \A f \in friendships, g \in friendships' :
             (f.id = g.id /\ f.status # "pending") => g.status # "pending"
       /\ \A id \in FriendshipIds, st \in updateFriendshipInputSchema :
             (updateFriendship(id, st) /\ ret'.error = NoError)
                => \A g \in friendships' : g.id = id => g.status # "pending"]_vars

\* C10 witness: an update succeeded after the time its record was created
\* at, while another record is still pending.
C10_Witness ==
    /\ ret.op = "updateFriendship" /\ ret.error = NoError
    /\ \E f \in ret.rows :
          f \in friendships /\ f.status = "accepted" /\ f.created_at < f.updated_at
    /\ \E f \in friendships : f.status = "pending"

\* C11: in every state, removeFriendship(id) on an id that a record has
\* deletes that record, whatever its status, and returns true; on an id no
\* record has it returns false without an error and leaves the store as it
\* is, so that a removal repeated on the resulting store returns false; in
\* both cases every record with another id is kept unchanged.
C11_RemoveFriendship ==
    \A id \in FriendshipIds :
        LET r == removeFriendship_result(id)
            present == \E f \in friendships : f.id = id
        IN /\ r.error = NoError
           /\ r.removed = present
           /\ ~ \E g \in r.friendships : g.id = id
           /\ {g \in r.friendships : g.id # id} = {f \in friendships : f.id # id}
           /\ ~ present => r.friendships = friendships

\* C11 witness: a removal returned true, the store holds another record, and
\* the removed record was not pending (the last serial is no longer stored).
C11_Witness ==
    /\ ret.op = "removeFriendship" /\ ret.removed
    /\ Cardinality(friendships) = 1
    /\ \A f \in friendships : f.id = 1 /\ f.status = "accepted"
    /\ nextId = 3

\* C12: in every state and for every id u, getFriendshipRequests(u) returns
\* exactly the records whose addressee is u and whose status is pending:
\* none where u is only the requester, none that is accepted, rejected or
\* blocked.
C12_FriendshipRequests ==
    \A u \in UserIds :
        /\ getFriendshipRequests(u) =
              {f \in friendships : f.addressee_id = u /\ f.status = "pending"}
        /\ \A f \in getFriendshipRequests(u) :
              f.requester_id # u /\ f.status \notin {"accepted", "rejected", "blocked"}

\* C12 witness: a user has one pending request addressed to them, which is
\* what the query returns, and is the requester of another pending record.
C12_Witness ==
    \E u \in users, f \in friendships, g \in friendships :
        /\ f.addressee_id = u /\ f.status = "pending"
        /\ g.requester_id = u /\ g.status = "pending"
        /\ getFriendshipRequests(u) = {f}

\* C13: in every state, for every accepted record between A and B, stored
\* as (A, B) or as (B, A), getUserFriends(A) contains B and getUserFriends(B)
\* contains A.
C13_FriendsSymmetric ==
    \A f \in friendships :
        f.status = "accepted"
           => /\ BagIn(f.addressee_id, getUserFriends(f.requester_id))
              /\ BagIn(f.requester_id, getUserFriends(f.addressee_id))

\* C13 witness: a user is the requester of one accepted record and the
\* addressee of another, and has both other users as friends.
C13_Witness ==
    \E f \in friendships, g \in friendships :
        /\ f.status = "accepted" /\ g.status = "accepted"
        /\ f.requester_id = g.addressee_id
        /\ BagToSet(getUserFriends(f.requester_id)) =
              {f.addressee_id, g.requester_id}

\* C14: in every state and for every id u, the users getUserFriends(u)
\* returns are exactly the other endpoints of the accepted records in which
\* u is requester or addressee; u itself is not among them, users tied to u
\* by a pending, rejected or blocked record only are not among them, and an
\* id of no user gives the empty result.
C14_FriendsExactly ==
    \A u \in UserIds :
        /\ BagToSet(getUserFriends(u)) =
              {x \in UserIds : \E f \in friendships :
                                  f.status = "accepted" /\ Connects(f, u, x)}
        /\ ~ BagIn(u, getUserFriends(u))
        /\ u \notin users => getUserFriends(u) = EmptyBag

\* C14 witness: a user has one accepted record and one blocked record, and
\* only the user of the accepted one is returned.
C14_Witness ==
    \E f \in friendships, g \in friendships :
        /\ f.status = "accepted" /\ g.status = "blocked"
        /\ f.addressee_id = g.addressee_id
        /\ BagToSet(getUserFriends(f.addressee_id)) = {f.requester_id}

\* C15: every createFriendship call that succeeds leaves its new record
\* pending and neither of its two users in the other's getUserFriends
\* result; every updateFriendship(id, accepted) call that succeeds, on such a
\* record or any other, leaves each of the record's users in the other's
\* getUserFriends result.
C15_PendingThenFriends ==
    [][/\ (ret'.op = "createFriendship" /\ ret'.error = NoError)
           => /\ ret'.rows # {}
              /\ \A f \in ret'.rows :
                    /\ f \in friendships'
                    /\ f.status = "pending"
                    /\ ~ BagIn(f.addressee_id, getUserFriends(f.requester_id)')
                    /\ ~ BagIn(f.requester_id, getUserFriends(f.addressee_id)')
       /\ \A id \in FriendshipIds :
             (updateFriendship(id, "accepted") /\ ret'.error = NoError)
                => \E f \in friendships' :
                      /\ f.id = id
                      /\ BagIn(f.addressee_id, getUserFriends(f.requester_id)')
                      /\ BagIn(f.requester_id, getUserFriends(f.addressee_id)')]_vars

\* C15 witness: the last call accepted a record that was created pending
\* earlier, and its two users are now friends of each other, while another
\* record is pending and its users are not.
C15_Witness ==
    /\ ret.op = "updateFriendship" /\ ret.error = NoError
    /\ \E f \in ret.rows, g \in friendships :
          /\ f \in friendships /\ f.created_at < f.updated_at
          /\ BagIn(f.addressee_id, getUserFriends(f.requester_id))
          /\ BagIn(f.requester_id, getUserFriends(f.addressee_id))
          /\ g.status = "pending"
          /\ ~ BagIn(g.addressee_id, getUserFriends(g.requester_id))

\* the users an accepted record ties to u
AcceptedFriends(u) ==
    {x \in users : \E f \in friendships : f.status = "accepted" /\ Connects(f, u, x)}

\* C16: for every store, every id u and every limit, each item of every
\* result of getActivityFeed(u, limit) is a stored check-in of a user that an
\* accepted record ties to u, never one of u itself; when no accepted record
\* names u the result is empty.
C16_FeedOfFriendsOnly ==
    \A u \in UserIds, limit \in Optional(1 .. MaxLimit) :
        \A s \in getActivityFeed(u, limit) :
            /\ \A i \in 1 .. Len(s) :
                  /\ \E c \in checkins :
                        /\ c.id = s[i].id /\ c.user_id = s[i].user_id
                        /\ c.created_at = s[i].created_at
                  /\ s[i].user_id \in AcceptedFriends(u)
                  /\ s[i].user_id # u
            /\ AcceptedFriends(u) = {} => s = <<>>

\* C16 witness: a feed of one item, the check-in of a friend, was returned to
\* a user u while the store also holds a check-in of a user that only a
\* record which is not accepted ties to u.
C16_Witness ==
    /\ out.op = "getActivityFeed" /\ Len(out.result) = 1
    /\ \E u \in users :
          /\ out.result \in getActivityFeed(u, <<>>)
          /\ \E c \in checkins, f \in friendships :
                /\ f.status # "accepted" /\ Connects(f, u, c.user_id)
                /\ c.user_id \notin AcceptedFriends(u)
          /\ \E f \in friendships : f.status = "accepted" /\ Connects(f, u, out.result[1].user_id)

\* the check-ins of the users an accepted record ties to u
FriendCheckins(u) == {c \in checkins : c.user_id \in AcceptedFriends(u)}

\* C17: for every store, every id u and every limit (20 when none is given),
\* every result of getActivityFeed(u, limit) is in non-increasing order of
\* created_at, has min(limit, number of check-ins of u's accepted friends)
\* items, and leaves out no check-in of a friend that is newer than an item
\* it holds.
C17_FeedOrderAndLimit ==
    \A u \in UserIds, limit \in Optional(1 .. MaxLimit) :
        \A s \in getActivityFeed(u, limit) :
            LET n == IF limit = <<>> THEN 20 ELSE limit[1]
                m == Cardinality(FriendCheckins(u))
            IN /\ \A i \in 1 .. Len(s), k \in 1 .. Len(s) :
                     i < k => s[i].created_at >= s[k].created_at
               /\ Len(s) = IF n < m THEN n ELSE m
               /\ \A c \in FriendCheckins(u) :
                     (\A i \in 1 .. Len(s) : s[i].id # c.id)
                        => \A i \in 1 .. Len(s) : c.created_at <= s[i].created_at

\* q is a substring of text, the case of letters aside
SubstringCI(q, text) ==
    \E i \in 0 .. (Len(text) - Len(q)) :
        \A k \in 1 .. Len(q) : Lower(text[i + k]) = Lower(q[k])

\* C18: for every store and every input, searchVenues returns a venue if
\* and only if its distance from the query point is at most the radius (10
\* when none is given), its category is the category given, if any, and the
\* text given, if any, is a substring, the case of letters aside, of its name
\* or of its description when it has one.
C18_SearchFilter ==
    \A input \in SearchVenuesInputs :
        \A o \in searchVenues(input), v \in venues :
            (\E i \in 1 .. Len(o.result) : o.result[i] = v)
               <=> /\ Distance(input.latitude, v)
                        <= (IF input.radius = <<>> THEN 10 ELSE input.radius[1])
                   /\ input.category # <<>> => v.category = input.category[1]
                   /\ input.query # <<>> =>
                         \/ SubstringCI(input.query[1], v.name)
                         \/ /\ v.description # <<>>
                            /\ SubstringCI(input.query[1], v.description[1])

\* C19: for every store and every input, in every result of searchVenues a
\* venue nearer to the query point than another comes before it.
C19_NearerFirst ==
    \A input \in SearchVenuesInputs :
        \A o \in searchVenues(input) :
            \A i \in 1 .. Len(o.result), k \in 1 .. Len(o.result) :
                Distance(input.latitude, o.result[i])
                      < Distance(input.latitude, o.result[k])
                   => i < k

\* C19 witness: a search returned two venues, the one inserted last first
\* because it is nearer to the query point.
C19_Witness ==
    /\ out.op = "searchVenues" /\ out.error = NoError /\ Len(out.result) = 2
    /\ out.result[1].id > out.result[2].id
    /\ \E input \in SearchVenuesInputs :
          /\ out \in searchVenues(input)
          /\ Distance(input.latitude, out.result[1])
                < Distance(input.latitude, out.result[2])

\* C20: every call of getUserFriends, getFriendshipRequests, getActivityFeed
\* or searchVenues, whatever it returns, leaves the users, venues, check-ins
\* and friendships tables as they were.
C20_ReadsChangeNothing ==
    [][out'.op \in {"getUserFriends", "getFriendshipRequests",
                    "getActivityFeed", "searchVenues"}
          => UNCHANGED <<users, venues, checkins, friendships>>]_vars

\* C20 witness: getUserFriends has returned nothing from a store that holds
\* friendship records and check-ins.
C20_Witness ==
    /\ out.op = "getUserFriends" /\ out.result = EmptyBag
    /\ friendships # {} /\ checkins # {}

\* C21: in every state, createCheckin inserts one check-in when its user and
\* its venue both exist, and otherwise fails and inserts nothing; every
\* stored check-in names an existing user and exactly one existing venue.
C21_CheckinReferences ==
    /\ \A user_id \in UserIds, venue_id \in VenueIds :
          LET r == createCheckin_result(user_id, venue_id)
          IN IF user_id \in users /\ \E v \in venues : v.id = venue_id
             THEN /\ r.error = NoError
                  /\ \E c \in r.rows :
                        /\ r.rows = {c} /\ c \notin checkins
                        /\ r.checkins = checkins \cup {c}
                        /\ c.user_id = user_id /\ c.venue_id = venue_id
             ELSE r.error # NoError /\ r.rows = {} /\ r.checkins = checkins
    /\ \A c \in checkins :
          /\ c.user_id \in users
          /\ Cardinality({v \in venues : v.id = c.venue_id}) = 1

\* C21 witness: a check-in was refused for a venue that does not exist,
\* after one was stored for an existing user and venue.
C21_Witness ==
    /\ ret.op = "createCheckin" /\ ret.error = ErrCheckinVenue
    /\ checkins # {}

\* C22: every change of the status of a record made by an updateFriendship
\* call is pending to accepted, pending to rejected, pending to blocked,
\* accepted to blocked or rejected to accepted; no other change is applied.
C22_SpecifiedTransitionsOnly ==
    [][\A f \in friendships, g \in friendships' :
          (f.id = g.id /\ f.status # g.status)
             => <<f.status, g.status>> \in
                   {<<"pending", "accepted">>, <<"pending", "rejected">>,
                    <<"pending", "blocked">>, <<"accepted", "blocked">>,
                    <<"rejected", "accepted">>}]_vars

\* C23: in every state every friendship record has a requester and an
\* addressee that are two different users of the users table.
C23_TwoDistinctUsers ==
    \A f \in friendships :
        /\ f.requester_id # f.addressee_id
        /\ f.requester_id \in users
        /\ f.addressee_id \in users

\* C23 witness: a request has just been stored next to another record, after
\* requests naming one user twice or a missing user could have been made.
C23_Witness ==
    /\ ret.op = "createFriendship" /\ ret.error = NoError
    /\ Cardinality(friendships) = 2
    /\ ret.rows \subseteq friendships

\* C24: under SpecConc, whatever the interleaving of createFriendship,
\* updateFriendship and removeFriendship calls, the result of
\* getUserFriends(u) holds no user more than once, for every id u.
C24_FriendsOnce ==
    \A u \in UserIds :
        \A x \in BagToSet(getUserFriends(u)) : CopiesIn(x, getUserFriends(u)) = 1

\* the orders of a set of check-ins, newest first
RECURSIVE NewestFirst(_)
NewestFirst(S) ==
    IF S = {} THEN {<<>>}
    ELSE UNION {{<<c>> \o s : s \in NewestFirst(S \ {c})} :
                  c \in {c \in S : \A d \in S : d.created_at <= c.created_at}}

\* the feeds of the two-step algorithm: the check-ins of the users in the
\* set getUserFriends(u), each once, newest first, cut at limit
TwoStepFeed(u, limit) ==
    {[i \in 1 .. (IF limit < Len(s) THEN limit ELSE Len(s)) |->
         [id |-> s[i].id, user_id |-> s[i].user_id, venue_id |-> s[i].venue_id,
          venue_name |-> (CHOOSE v \in venues : v.id = s[i].venue_id).name,
          created_at |-> s[i].created_at]] :
        s \in NewestFirst({c \in checkins :
                              c.user_id \in BagToSet(getUserFriends(u))})}

\* C25: for every store, every id u and every limit from 1 up, the joined
\* query of getActivityFeed can return exactly the feeds of the two-step
\* algorithm.
C25_FeedIsTwoStep ==
    \A u \in UserIds, limit \in 1 .. MaxLimit :
        getActivityFeed(u, <<limit>>) = TwoStepFeed(u, limit)

\* C26: in every state, an updateFriendship(id, s) call that succeeds
\* returns one record, the one stored under id, with status s, an updated_at
\* later than its created_at and not earlier than the updated_at it had.
C26_UpdateSetsStatusAndTime ==
    \A id \in FriendshipIds, st \in updateFriendshipInputSchema :
        LET r == updateFriendship_result(id, st)
        IN r.error = NoError
              => \E f \in friendships, g \in r.rows :
                    /\ f.id = id /\ g.id = id
                    /\ r.rows = {g} /\ g \in r.friendships
                    /\ g.status = st
                    /\ g.updated_at > g.created_at
                    /\ g.updated_at >= f.updated_at


\* C27: in every state, for every input, any two searchVenues calls with that
\* input on the venue store of the state that both succeed return the same
\* venues in the same order, venues at one distance included.
C27_SearchStable ==
    \A input \in SearchVenuesInputs :
        \A a \in searchVenues(input), b \in searchVenues(input) :
            (a.error = NoError /\ b.error = NoError) => a.result = b.result


\* C28: in every state, an updateFriendship(id, s) call that succeeds leaves
\* the number of friendship records as it is, leaves every record with another
\* id as it is, and leaves the id, requester, addressee and created_at of the
\* record with that id as they are.
C28_UpdateFrame ==
    \A id \in FriendshipIds, st \in updateFriendshipInputSchema :
        LET r == updateFriendship_result(id, st)
        IN r.error = NoError
              => /\ Cardinality(r.friendships) = Cardinality(friendships)
                 /\ \A f \in friendships : f.id # id => f \in r.friendships
                 /\ \A g \in r.friendships :
                       g.id = id
                          => \E f \in friendships :
                                /\ f.id = id
                                /\ g.requester_id = f.requester_id
                                /\ g.addressee_id = f.addressee_id
                                /\ g.created_at = f.created_at
                                /\ [g EXCEPT !.status = f.status,
                                             !.updated_at = f.updated_at] = f

\* an update has succeeded after the clock advanced, with another record in
\* the store
C28_Witness ==
    /\ ret.op = "updateFriendship" /\ ret.error = NoError
    /\ Cardinality(friendships) = 2
    /\ \E f \in ret.rows : f \in friendships /\ f.updated_at > f.created_at


\* C29: on every step in which removeFriendship deletes a record between A
\* and B, whatever its status was, createFriendship(A, B) and
\* createFriendship(B, A) succeed in the state the step leads to and produce
\* one new pending record for that pair; updateFriendship can then accept it.
C29_CreateAfterRemove ==
    [][\A f \in friendships :
          (ret'.op = "removeFriendship" /\ ret'.removed /\ f \notin friendships')
             => \A ab \in {<<f.requester_id, f.addressee_id>>,
                            <<f.addressee_id, f.requester_id>>} :
                   LET r == createFriendship_result(ab[1], ab[2])'
                   IN /\ r.error = NoError
                      /\ \E g \in r.rows :
                            /\ r.rows = {g}
                            /\ g.requester_id = ab[1] /\ g.addressee_id = ab[2]
                            /\ g.status = "pending"
                            /\ g \in r.friendships
                            /\ g.id \notin {h.id : h \in friendships}
                            /\ "accepted" \in updateFriendshipInputSchema
                            /\ UpdateCheck({g}) = NoError]_vars

\* the record with serial 1 has been removed, a record was created after it
\* and an update has brought that one to accepted
C29_Witness ==
    /\ ret.op = "updateFriendship" /\ ret.error = NoError
    /\ nextId = 3
    /\ \E f \in friendships :
          friendships = {f} /\ f.id = 2 /\ f.status = "accepted"


\* C30: under SpecConc, every updateFriendship(id, s) call that gets past its
\* existence check and completes without an error returns one record, with
\* that id and with status s, whatever ran between the check and the write
\* (a removeFriendship(id) included).
C30_UpdateReturnsItsRecord ==
    [][\A p \in Procs :
          (updateFriendship_update(p) /\ ret'.error = NoError)
             => \E g \in ret'.rows :
                   /\ ret'.rows = {g}
                   /\ g.id = calls[p].id
                   /\ g.status = calls[p].status]_vars

====
